---- MODULE Spec2Model ----
(***************************************************************************)
(* A model of the asynchronous PDF job queue of AIPDFSummary:              *)
(*   - upload_file / get_status   (src/app/main.py)                        *)
(*   - main / process_document    (src/app/worker.py)                      *)
(* together with the Redis stream "pdf_tasks", its consumer group          *)
(* "pdf_workers" and the "document:<id>" status hashes they share.         *)
(*                                                                         *)
(* Every Redis command is one atomic step; the processes interleave        *)
(* between commands.  Local computation that follows a command (base64     *)
(* decoding, the backend calls to PyPDF / Gemini) is folded into the step  *)
(* of the command that precedes it, with its outcome drawn from the        *)
(* outcomes the call can have.  A command of upload_file or of the worker  *)
(* can also raise, before the server has executed it (Redis unreachable)   *)
(* or after (the reply is lost); control then goes to the handler the code *)
(* has for it.                                                             *)
(***************************************************************************)
EXTENDS Integers, Sequences, FiniteSets, TLC

(***************************************************************************)
(* Bounds of the model.                                                    *)
(***************************************************************************)
MaxDocs == 2        \* upload requests (each draws a fresh uuid4)
NumWorkers == 2     \* worker processes that exist (see Init for how many run)
MaxPages == 2       \* pages convert_from_bytes can return
MaxCrashes == 1     \* worker process crashes
MaxFaults == 1      \* Redis commands that raise (unreachable, reply lost)
MaxInFlight == 1    \* upload requests being handled at the same time

Requests == 1..MaxDocs
DocIds == 1..MaxDocs
Workers == 1..NumWorkers
EntryIds == 1..MaxDocs

(***************************************************************************)
(* Program constants.                                                      *)
(***************************************************************************)
REDIS_GROUP == "pdf_workers"
REDIS_CONSUMER == "worker-1"
TotalSteps == 5

Absent == "<absent>"
Fields == {"status", "progress", "current_step", "total_steps",
           "current_step_number", "content", "summary", "error"}

\* Step numbers are stored as the strings the code writes.
StepStr(n) == CASE n = 0 -> "0" [] n = 1 -> "1" [] n = 2 -> "2"
                [] n = 3 -> "3" [] n = 4 -> "4" [] n = 5 -> "5"
                [] OTHER -> "?"
StepNum(s) == CASE s = "0" -> 0 [] s = "1" -> 1 [] s = "2" -> 2
                [] s = "3" -> 3 [] s = "4" -> 4 [] s = "5" -> 5
                [] OTHER -> -1

(***************************************************************************)
(* Inputs of upload_file.                                                  *)
(***************************************************************************)
PdfSig == <<"%PDF-">>
Filenames == {<<"doc", ".pdf">>, <<"doc", ".txt">>}
Contents == {<< >>, <<"junk">>, <<"%PDF-", "body">>}
Parsers == {"pypdf", "gemini", "other"}

EndsWith(s, suffix) ==
    /\ Len(s) >= Len(suffix)
    /\ SubSeq(s, Len(s) - Len(suffix) + 1, Len(s)) = suffix
StartsWith(s, prefix) ==
    /\ Len(s) >= Len(prefix)
    /\ SubSeq(s, 1, Len(prefix)) = prefix

\* base64.b64encode(content).decode('utf-8') and base64.b64decode(content)
B64Tag == "b64:"
DecodeError == <<"binascii.Error">>
B64Encode(bytes) == <<B64Tag>> \o bytes
B64Decode(text) ==
    IF Len(text) >= 1 /\ Head(text) = B64Tag THEN Tail(text) ELSE DecodeError

VARIABLES
    upc,          \* upload request -> "new" | "hset" | "answer" | "raise" | "done"
    file,         \* upload request -> [filename, content] it was called with
    response,     \* upload request -> [code, detail, doc_id] of the HTTP answer
    streamExists, \* whether the key pdf_tasks exists
    stream,       \* the entries of pdf_tasks, in id order (entry id = index)
    groups,       \* group name -> [last |-> last-delivered id,
                  \*                pel |-> pending [id, consumer] pairs]
    status,       \* doc id -> the hash document:<id>
    wpc,          \* worker -> position in main / process_document
    wmsg,         \* worker -> the entry id it is processing (0: none)
    wpage,        \* worker -> [i, n] of the page loop of process_with_gemini
    werr,         \* worker -> the message of the exception in flight
    wterm,        \* worker -> the terminal status it wrote in this delivery
    crashes,      \* worker crashes so far
    deliveries,   \* entry id -> times XREADGROUP returned it
    raised,       \* entry ids for which the handler at worker.py 218 ran
    failed,       \* entry ids whose process_document call raised
    faults,       \* Redis commands that raised so far
    hiStep        \* doc id -> highest step number observed while "processing"

vars == <<upc, file, response, streamExists, stream, groups, status, wpc, wmsg,
          wpage, werr, wterm, crashes, deliveries, raised, failed, faults, hiStep>>
uploadVars == <<upc, file, response>>
queueVars == <<streamExists, stream, groups, deliveries>>
workerVars == <<wpc, wmsg, wpage, werr, wterm, crashes, raised, failed>>

NoResponse == [code |-> 0, detail |-> "", doc_id |-> 0]
NoFile == [filename |-> << >>, content |-> << >>]
EmptyHash == [f \in Fields |-> Absent]
NoPage == [i |-> 0, n |-> 0]

(***************************************************************************)
(* Redis commands.                                                         *)
(***************************************************************************)
\* The outcomes of an awaited Redis command: it is done and answered; the
\* client raises before the server has the command (connection refused); or
\* the server executes the command and the client raises all the same (the
\* reply is lost, the read times out).
RedisOutcomes == {"ok", "ConnectionError", "ReplyLost"}
RedisErrorMsg == "redis error"

\* The outcomes with which the client raises.
RedisFailures == RedisOutcomes \ {"ok"}

\* The server executed the command.
Applied(redis) == redis # "ConnectionError"

\* The command has that outcome; a raise counts as a fault.
Fault(redis) ==
    IF redis = "ok"
    THEN UNCHANGED faults
    ELSE faults < MaxFaults /\ faults' = faults + 1

\* HSET key field value [field value ...]: sets the given fields, keeps the rest.
HSet(hash, mapping) ==
    [f \in Fields |-> IF f \in DOMAIN mapping THEN mapping[f] ELSE hash[f]]

\* HGETALL: the fields that are set (empty for a key that does not exist).
HGetAll(hash) == {f \in Fields : hash[f] # Absent}

\* dict.get(field, default) on the result of HGETALL
Get(hash, f, default) == IF hash[f] # Absent THEN hash[f] ELSE default

\* The status a step leaves, and the highest step seen while processing.
Observe(hi, hash) ==
    IF hash["status"] = "processing" /\ StepNum(hash["current_step_number"]) > hi
    THEN StepNum(hash["current_step_number"]) ELSE hi

WriteStatus(d, mapping) ==
    /\ status' = [status EXCEPT ![d] = HSet(status[d], mapping)]
    /\ hiStep' = [hiStep EXCEPT ![d] = Observe(hiStep[d], HSet(status[d], mapping))]

\* An awaited redis_client.hset(...) with that outcome.
TryWriteStatus(d, mapping, redis) ==
    IF Applied(redis)
    THEN WriteStatus(d, mapping)
    ELSE UNCHANGED <<status, hiStep>>

\* XADD: appends the entry, creating the stream; the entry id is its position.
XAdd(entry) ==
    /\ stream' = Append(stream, entry)
    /\ streamExists' = TRUE

GroupExists == REDIS_GROUP \in DOMAIN groups

\* XGROUP CREATE pdf_tasks pdf_workers $ MKSTREAM: the group starts after the
\* last entry the stream holds at that moment.
XGroupCreate ==
    /\ groups' = [g \in {REDIS_GROUP} |-> [last |-> Len(stream), pel |-> {}]]
    /\ streamExists' = TRUE

\* XREADGROUP GROUP pdf_workers worker-1 COUNT 1 STREAMS pdf_tasks > :
\* the entries never delivered to the group, oldest first.
NewOrPendingEntries ==
    IF GroupExists
    THEN {id \in 1..Len(stream) : id > groups[REDIS_GROUP].last}
            \cup {p.id : p \in {q \in groups[REDIS_GROUP].pel :
                                   q.consumer = REDIS_CONSUMER}}
    ELSE {}

NewEntries ==
    IF GroupExists
    THEN {id \in 1..Len(stream) : id > groups[REDIS_GROUP].last}
    ELSE {}
Min(S) == CHOOSE x \in S : \A y \in S : x <= y

\* What the server does with it: the entry becomes the group's last-delivered
\* one and enters the pending list under the consumer's name.
XReadGroupServer(id, consumer) ==
    groups' = [groups EXCEPT ![REDIS_GROUP] =
                  [last |-> id,
                   pel |-> @.pel \cup {[id |-> id, consumer |-> consumer]}]]

\* The command answered: the caller has the entry.
XReadGroupNew(id, consumer) ==
    /\ XReadGroupServer(id, consumer)
    /\ deliveries' = [deliveries EXCEPT ![id] = @ + 1]

\* XACK: removes the entry from the group's pending list.
XAck(id) ==
    groups' = [groups EXCEPT ![REDIS_GROUP].pel = {p \in @ : p.id # id}]

(***************************************************************************)
(* The initial state: an empty Redis, no request received, one worker      *)
(* process deployed and not yet started.                                   *)
(***************************************************************************)
InitShared ==
    /\ upc = [r \in Requests |-> "new"]
    /\ file = [r \in Requests |-> NoFile]
    /\ response = [r \in Requests |-> NoResponse]
    /\ streamExists = FALSE
    /\ stream = << >>
    /\ groups = [g \in {} |-> [last |-> 0, pel |-> {}]]
    /\ status = [d \in DocIds |-> EmptyHash]
    /\ wmsg = [w \in Workers |-> 0]
    /\ wpage = [w \in Workers |-> NoPage]
    /\ werr = [w \in Workers |-> ""]
    /\ wterm = [w \in Workers |-> "none"]
    /\ crashes = 0
    /\ deliveries = [id \in EntryIds |-> 0]
    /\ raised = {}
    /\ failed = {}
    /\ faults = 0
    /\ hiStep = [d \in DocIds |-> -1]

Init ==
    /\ InitShared
    /\ wpc = [w \in Workers |-> IF w = 1 THEN "down" ELSE "off"]

(***************************************************************************)
(* upload_file (main.py 230-278).                                          *)
(***************************************************************************)
ValidationErrorNoHeaderCheck(filename, content) ==
    IF ~EndsWith(filename, <<".pdf">>)
    THEN "Only PDF files are allowed"
    ELSE ""

\* main.py 234-244
ValidationError(filename, content) ==
    IF ~EndsWith(filename, <<".pdf">>)
    THEN "Only PDF files are allowed"
    ELSE IF ~StartsWith(content, PdfSig)
    THEN "Invalid PDF file: File does not start with PDF header"
    ELSE ""

\* The upload requests upload_file has received and not answered yet.
InFlight == {q \in Requests : upc[q] \notin {"new", "done"}}

\* Requests are numbered in the order they arrive; request r draws doc_id r.
Arrives(r) ==
    /\ upc[r] = "new"
    /\ IF r = 1 THEN TRUE ELSE upc[r - 1] # "new"
    /\ Cardinality(InFlight) < MaxInFlight

\* main.py 231, 240: the uploaded file the handler was called with.
Receive(r, filename, content) ==
    file' = [file EXCEPT ![r] = [filename |-> filename, content |-> content]]

\* The answer of the handler at main.py 276-278 to any exception raised in the
\* body, the HTTPException(400) of the validation included.
ServerError(detail) == [code |-> 500, detail |-> detail, doc_id |-> 0]

\* str(e) of the HTTPException(status_code=400, detail=...) of main.py 235, 244.
\* It depends on the installed Starlette, which the repository does not pin:
\* where HTTPException defines __str__ it is f"{status_code}: {detail}", where
\* it does not it is the empty string (the exception is built from keyword
\* arguments only, so Exception.__str__ has nothing to show).
HTTPExceptionStr(has_str, status_code, detail) ==
    IF has_str
    THEN (CASE status_code = 400 -> "400" [] OTHER -> "500") \o ": " \o detail
    ELSE ""

\* main.py 234-244: the request is rejected before anything is written.
UploadReject(r, filename, content, parser, has_str) ==
    /\ Arrives(r)
    /\ UNCHANGED faults
    /\ ValidationError(filename, content) # ""
    /\ Receive(r, filename, content)
    /\ upc' = [upc EXCEPT ![r] = "done"]
    /\ response' = [response EXCEPT ![r] =
                       ServerError(HTTPExceptionStr(has_str, 400,
                                       ValidationError(filename, content)))]
    /\ UNCHANGED <<queueVars, status, hiStep, workerVars>>

TaskData(doc_id, content, parser) ==
    [doc_id |-> doc_id, content |-> B64Encode(content), parser |-> parser]

\* main.py 246-264: a fresh doc_id, then XADD of the task; upload_file goes on
\* to its HSET.
UploadXadd(r, filename, content, parser) ==
    /\ Arrives(r)
    /\ UNCHANGED faults
    /\ ValidationError(filename, content) = ""
    /\ Receive(r, filename, content)
    /\ XAdd(TaskData(r, content, parser))
    /\ upc' = [upc EXCEPT ![r] = "hset"]
    /\ UNCHANGED <<response, groups, deliveries, status, hiStep, workerVars>>

\* main.py 264 raising: upload_file goes on to its handler at 276; the task is
\* in the stream when the server had executed the XADD.
UploadXaddFail(r, filename, content, parser, redis) ==
    /\ Arrives(r)
    /\ Fault(redis)
    /\ ValidationError(filename, content) = ""
    /\ Receive(r, filename, content)
    /\ IF Applied(redis)
       THEN XAdd(TaskData(r, content, parser))
       ELSE UNCHANGED <<stream, streamExists>>
    /\ upc' = [upc EXCEPT ![r] = "raise"]
    /\ UNCHANGED <<response, groups, deliveries, status, hiStep, workerVars>>

QueuedFields ==
    [status |-> "queued", progress |-> "Task queued for processing",
     current_step |-> "init", total_steps |-> StepStr(TotalSteps),
     current_step_number |-> StepStr(0)]

\* main.py 266-273: the server executes the HSET of the initial status;
\* upload_file, suspended in the await, has yet to read the reply and answer.
UploadHset(r) ==
    /\ upc[r] = "hset"
    /\ UNCHANGED faults
    /\ WriteStatus(r, QueuedFields)
    /\ upc' = [upc EXCEPT ![r] = "answer"]
    /\ UNCHANGED <<file, response, queueVars, workerVars>>

\* main.py 267 raising: the task stays in the stream, upload_file goes on to
\* its handler at 276; the record is written when the server had executed the
\* HSET.
UploadHsetFail(r, redis) ==
    /\ upc[r] = "hset"
    /\ Fault(redis)
    /\ TryWriteStatus(r, QueuedFields, redis)
    /\ upc' = [upc EXCEPT ![r] = "raise"]
    /\ UNCHANGED <<file, response, queueVars, workerVars>>

\* main.py 275: upload_file resumes after the HSET and answers with the doc_id.
UploadAnswer(r) ==
    /\ upc[r] = "answer"
    /\ upc' = [upc EXCEPT ![r] = "done"]
    /\ response' = [response EXCEPT ![r] =
                       [code |-> 200, detail |-> "File uploaded successfully",
                        doc_id |-> r]]
    /\ UNCHANGED <<file, queueVars, status, hiStep, workerVars, faults>>

\* main.py 276-278: the handler answers the exception of XADD or HSET with 500.
UploadRaise(r) ==
    /\ upc[r] = "raise"
    /\ upc' = [upc EXCEPT ![r] = "done"]
    /\ response' = [response EXCEPT ![r] = ServerError(RedisErrorMsg)]
    /\ UNCHANGED <<file, queueVars, status, hiStep, workerVars, faults>>

\* get_status (main.py 280-299)
NotFound == [code |-> 404, detail |-> "Document not found"]
get_status(document_id) ==
    IF HGetAll(status[document_id]) = {}
    THEN NotFound
    ELSE [code |-> 200,
          status |-> Get(status[document_id], "status", "unknown"),
          content |-> Get(status[document_id], "content", ""),
          summary |-> Get(status[document_id], "summary", ""),
          error |-> Get(status[document_id], "error", ""),
          progress |-> Get(status[document_id], "progress", ""),
          current_step |-> Get(status[document_id], "current_step", ""),
          total_steps |-> Get(status[document_id], "total_steps", "0"),
          current_step_number |->
              Get(status[document_id], "current_step_number", "0")]

(***************************************************************************)
(* The worker: main (worker.py 165-232).                                   *)
(***************************************************************************)
Entry(w) == stream[wmsg[w]]
Doc(w) == Entry(w).doc_id

AfterGroupCreateRaise(busy) == IF busy THEN "fatal" ELSE "read"

\* worker.py 174-183: where main goes after xgroup_create; the BUSYGROUP
\* error (the group exists) is logged and the worker goes on to its loop.
AfterGroupCreate(busy) == "read"

\* worker.py 167-183: connect, then XGROUP CREATE with mkstream, which changes
\* nothing when the group exists.
WorkerStart(w) ==
    /\ wpc[w] = "down"
    /\ UNCHANGED faults
    /\ IF GroupExists
       THEN UNCHANGED <<groups, streamExists>>
       ELSE XGroupCreate
    /\ wpc' = [wpc EXCEPT ![w] = AfterGroupCreate(GroupExists)]
    /\ UNCHANGED <<uploadVars, stream, deliveries, status, hiStep, wmsg, wpage,
                   werr, wterm, crashes, raised, failed>>

\* worker.py 229-232: connecting, PING or XGROUP CREATE raised something other
\* than BUSYGROUP; the error is logged and the process exits.  The group is
\* there when the server had executed the XGROUP CREATE.
WorkerStartFail(w, redis) ==
    /\ wpc[w] = "down"
    /\ Fault(redis)
    /\ IF Applied(redis) /\ ~GroupExists
       THEN XGroupCreate
       ELSE UNCHANGED <<groups, streamExists>>
    /\ UNCHANGED <<uploadVars, stream, deliveries, status, hiStep, workerVars>>

\* worker.py 188-212: XREADGROUP returns one new entry; the worker unpacks it
\* and calls process_document.
WorkerRead(w) ==
    /\ wpc[w] = "read"
    /\ UNCHANGED faults
    /\ NewEntries # {}
    /\ XReadGroupNew(Min(NewEntries), REDIS_CONSUMER)
    /\ wmsg' = [wmsg EXCEPT ![w] = Min(NewEntries)]
    /\ wterm' = [wterm EXCEPT ![w] = "none"]
    /\ wpc' = [wpc EXCEPT ![w] = "init"]
    /\ UNCHANGED <<uploadVars, streamExists, stream, status, hiStep, wpage,
                   werr, crashes, raised, failed>>

\* worker.py 196-198: nothing new within the block time; the loop continues.
WorkerReadEmpty(w) ==
    /\ wpc[w] = "read"
    /\ NewEntries = {}
    /\ UNCHANGED vars

\* worker.py 224-227: XREADGROUP raised; the error is logged, the loop
\* continues.  When the server had executed the command, the entry it chose
\* is in the pending list and no worker has it.
WorkerReadError(w, redis) ==
    /\ wpc[w] = "read"
    /\ Fault(redis)
    /\ IF Applied(redis) /\ NewEntries # {}
       THEN XReadGroupServer(Min(NewEntries), REDIS_CONSUMER)
       ELSE UNCHANGED groups
    /\ UNCHANGED <<uploadVars, streamExists, stream, deliveries, status, hiStep,
                   workerVars>>

(***************************************************************************)
(* process_document (worker.py 25-163).                                    *)
(***************************************************************************)
\* worker.py 34-40
ProcessingFields ==
    [status |-> "processing", progress |-> "Starting PDF processing...",
     current_step |-> "init", total_steps |-> StepStr(TotalSteps),
     current_step_number |-> StepStr(0)]

DecodeFields ==
    [progress |-> "Decoding PDF content...", current_step |-> "decode",
     current_step_number |-> StepStr(1)]

ConvertFields ==
    [progress |-> "Converting PDF to images...", current_step |-> "convert",
     current_step_number |-> StepStr(2)]

PypdfFields ==
    [progress |-> "Processing with PyPDF...", current_step |-> "process",
     current_step_number |-> StepStr(2)]

PageProgress(i, n) ==
    CASE <<i, n>> = <<1, 1>> -> "Processing page 1/1"
      [] <<i, n>> = <<1, 2>> -> "Processing page 1/2"
      [] <<i, n>> = <<2, 2>> -> "Processing page 2/2"
      [] <<i, n>> = <<1, 3>> -> "Processing page 1/3"
      [] <<i, n>> = <<2, 3>> -> "Processing page 2/3"
      [] <<i, n>> = <<3, 3>> -> "Processing page 3/3"
      [] OTHER -> "Processing page i/n"

PageStepNumberPageIndex(i) == i
PageStepNumber(i) == 3
PageFields(i, n) ==
    [progress |-> PageProgress(i, n), current_step |-> "process",
     current_step_number |-> StepStr(PageStepNumber(i))]

SummaryFields ==
    [progress |-> "Generating summary...", current_step |-> "summary",
     current_step_number |-> StepStr(4)]

\* What process_with_pypdf / process_with_gemini return.
BackendResult == [content |-> "markdown content", summary |-> "summary text"]

CompletedFieldsContentOnly(result) ==
    [status |-> "completed", content |-> result.content,
     progress |-> "Processing completed successfully",
     current_step |-> "complete", current_step_number |-> StepStr(5)]

CompletedFields(result) ==
    [status |-> "completed", content |-> result.content,
     summary |-> result.summary,
     progress |-> "Processing completed successfully",
     current_step |-> "complete", current_step_number |-> StepStr(5)]

\* worker.py 100-106, 141-145, 157-161: str(e) and f"Error: {str(e)}"
ErrorFields(msg) ==
    [status |-> "error", error |-> msg, progress |-> "Error: " \o msg]

DecodeErrorFields ==
    [status |-> "error", error |-> "Invalid content format in Redis",
     progress |-> "Failed to decode PDF content"]

\* worker.py 149: f"Unsupported parser: {parser}"
UnsupportedParserMsg(parser) == "Unsupported parser: " \o parser

\* The terminal status the worker has sent in this delivery, after an HSET of
\* that status with that outcome.
TermAfter(w, term, redis) ==
    wterm' = IF Applied(redis) THEN [wterm EXCEPT ![w] = term] ELSE wterm

\* The outcomes of a call to the external backend (pypdf, pdf2image, Gemini).
BackendOutcomes == {"ok", "ValueError", "Exception"}
BackendErrorMsg(outcome) ==
    IF outcome = "ValueError" THEN "backend value error" ELSE "backend error"

Goto(w, pc) == wpc' = [wpc EXCEPT ![w] = pc]
Raise(w, msg) == werr' = [werr EXCEPT ![w] = msg]

\* worker.py 31-41; when the HSET raises, the handler at 151 is next.
WorkerInit(w, redis) ==
    /\ wpc[w] = "init"
    /\ Fault(redis)
    /\ TryWriteStatus(Doc(w), ProcessingFields, redis)
    /\ IF redis = "ok"
       THEN Goto(w, "decode") /\ UNCHANGED werr
       ELSE Goto(w, "fail_outer") /\ Raise(w, RedisErrorMsg)
    /\ UNCHANGED <<uploadVars, queueVars, wmsg, wpage, wterm, crashes, raised, failed>>

\* Where process_document goes after a successful decode (worker.py 67, 108, 148).
ParserBranch(parser) ==
    IF parser = "gemini" THEN "g_convert"
    ELSE IF parser = "pypdf" THEN "p_process"
    ELSE "fail_outer"

\* worker.py 44-53, then the parser dispatch at 67/108/148-149.  Whatever is
\* raised in the block (the HSET or b64decode) goes to the handler at 54.
WorkerDecode(w, redis) ==
    /\ wpc[w] = "decode"
    /\ Fault(redis)
    /\ TryWriteStatus(Doc(w), DecodeFields, redis)
    /\ IF redis # "ok"
       THEN Goto(w, "fail_decode") /\ Raise(w, RedisErrorMsg)
       ELSE IF B64Decode(Entry(w).content) = DecodeError
       THEN Goto(w, "fail_decode") /\ Raise(w, "Invalid base64 input")
       ELSE /\ Goto(w, ParserBranch(Entry(w).parser))
            /\ IF ParserBranch(Entry(w).parser) = "fail_outer"
               THEN Raise(w, UnsupportedParserMsg(Entry(w).parser))
               ELSE UNCHANGED werr
    /\ UNCHANGED <<uploadVars, queueVars, wmsg, wpage, wterm, crashes, raised, failed>>

\* worker.py 110-122: the step-2 write, then process_with_pypdf (main.py 58-101).
WorkerPypdf(w, redis, outcome) ==
    /\ wpc[w] = "p_process"
    /\ Fault(redis)
    /\ TryWriteStatus(Doc(w), PypdfFields, redis)
    /\ IF redis # "ok"
       THEN Goto(w, "fail_pypdf") /\ Raise(w, RedisErrorMsg)
       ELSE IF outcome = "ok"
       THEN Goto(w, "p_done") /\ UNCHANGED werr
       ELSE Goto(w, "fail_pypdf") /\ Raise(w, BackendErrorMsg(outcome))
    /\ UNCHANGED <<uploadVars, queueVars, wmsg, wpage, wterm, crashes, raised, failed>>

\* worker.py 124-136; when the HSET raises, the handler at 137 is next, also
\* when the server has written the record.
WorkerPypdfDone(w, redis) ==
    /\ wpc[w] = "p_done"
    /\ Fault(redis)
    /\ TryWriteStatus(Doc(w), CompletedFields(BackendResult), redis)
    /\ TermAfter(w, "completed", redis)
    /\ IF redis = "ok"
       THEN Goto(w, "ack") /\ UNCHANGED werr
       ELSE Goto(w, "fail_pypdf") /\ Raise(w, RedisErrorMsg)
    /\ UNCHANGED <<uploadVars, queueVars, wmsg, wpage, crashes, raised, failed>>

\* Where an exception of the gemini branch is handled: ValueError at worker.py
\* 96-107, anything else (a Redis error included) at 151-163 only.
GeminiHandler(outcome) ==
    IF outcome = "ValueError" THEN "fail_gemini" ELSE "fail_outer"

\* worker.py 69-81, then convert_from_bytes (main.py 107-108) giving n pages.
WorkerGeminiConvert(w, redis, outcome, n) ==
    /\ wpc[w] = "g_convert"
    /\ Fault(redis)
    /\ TryWriteStatus(Doc(w), ConvertFields, redis)
    /\ IF redis # "ok"
       THEN /\ Goto(w, GeminiHandler(redis))
            /\ Raise(w, RedisErrorMsg)
            /\ UNCHANGED wpage
       ELSE IF outcome = "ok"
       THEN /\ Goto(w, IF n = 0 THEN "g_summary" ELSE "g_page")
            /\ wpage' = [wpage EXCEPT ![w] =
                            IF n = 0 THEN NoPage ELSE [i |-> 1, n |-> n]]
            /\ UNCHANGED werr
       ELSE /\ Goto(w, GeminiHandler(outcome))
            /\ Raise(w, BackendErrorMsg(outcome))
            /\ UNCHANGED wpage
    /\ UNCHANGED <<uploadVars, queueVars, wmsg, wterm, crashes, raised, failed>>

\* main.py 112-189: the progress write of page i, then the Gemini call for it.
WorkerGeminiPage(w, redis, outcome) ==
    /\ wpc[w] = "g_page"
    /\ Fault(redis)
    /\ TryWriteStatus(Doc(w), PageFields(wpage[w].i, wpage[w].n), redis)
    /\ IF redis # "ok"
       THEN /\ Goto(w, GeminiHandler(redis))
            /\ Raise(w, RedisErrorMsg)
            /\ wpage' = [wpage EXCEPT ![w] = NoPage]
       ELSE IF outcome = "ok"
       THEN /\ Goto(w, IF wpage[w].i < wpage[w].n THEN "g_page" ELSE "g_summary")
            /\ wpage' = [wpage EXCEPT ![w] =
                            IF @.i < @.n THEN [i |-> @.i + 1, n |-> @.n] ELSE NoPage]
            /\ UNCHANGED werr
       ELSE /\ Goto(w, GeminiHandler(outcome))
            /\ Raise(w, BackendErrorMsg(outcome))
            /\ wpage' = [wpage EXCEPT ![w] = NoPage]
    /\ UNCHANGED <<uploadVars, queueVars, wmsg, wterm, crashes, raised, failed>>

\* main.py 202-225: the step-4 write, then the summary call.
WorkerGeminiSummary(w, redis, outcome) ==
    /\ wpc[w] = "g_summary"
    /\ Fault(redis)
    /\ TryWriteStatus(Doc(w), SummaryFields, redis)
    /\ IF redis # "ok"
       THEN Goto(w, GeminiHandler(redis)) /\ Raise(w, RedisErrorMsg)
       ELSE IF outcome = "ok"
       THEN Goto(w, "g_done") /\ UNCHANGED werr
       ELSE Goto(w, GeminiHandler(outcome)) /\ Raise(w, BackendErrorMsg(outcome))
    /\ UNCHANGED <<uploadVars, queueVars, wmsg, wpage, wterm, crashes, raised, failed>>

\* worker.py 83-95; when the HSET raises, the handler at 151 is next, also
\* when the server has written the record.
WorkerGeminiDone(w, redis) ==
    /\ wpc[w] = "g_done"
    /\ Fault(redis)
    /\ TryWriteStatus(Doc(w), CompletedFields(BackendResult), redis)
    /\ TermAfter(w, "completed", redis)
    /\ IF redis = "ok"
       THEN Goto(w, "ack") /\ UNCHANGED werr
       ELSE Goto(w, GeminiHandler(redis)) /\ Raise(w, RedisErrorMsg)
    /\ UNCHANGED <<uploadVars, queueVars, wmsg, wpage, crashes, raised, failed>>

\* The write of the handler an exception reaches first: worker.py 54-64 for the
\* decode block, 137-147 for the pypdf branch, 96-107 for a ValueError of the
\* gemini branch.
HandlerFields(pc, msg) ==
    IF pc = "fail_decode" THEN DecodeErrorFields ELSE ErrorFields(msg)

\* What the handler then raises to the outer handler: a new ValueError at
\* worker.py 64, the exception it caught at 107 and 147.
HandlerRaises(pc, msg) ==
    IF pc = "fail_decode" THEN "Invalid content format in Redis" ELSE msg

\* The inner handler: its write, then its raise; when the write itself raises,
\* that exception is the one that reaches the outer handler.
WorkerInnerHandler(w, redis) ==
    /\ wpc[w] \in {"fail_decode", "fail_pypdf", "fail_gemini"}
    /\ Fault(redis)
    /\ TryWriteStatus(Doc(w), HandlerFields(wpc[w], werr[w]), redis)
    /\ TermAfter(w, "error", redis)
    /\ IF redis = "ok"
       THEN Raise(w, HandlerRaises(wpc[w], werr[w]))
       ELSE Raise(w, RedisErrorMsg)
    /\ Goto(w, "fail_outer")
    /\ UNCHANGED <<uploadVars, queueVars, wmsg, wpage, crashes, raised, failed>>

HandlerAckXack(w) == XAck(wmsg[w])

\* What the handler at worker.py 218-222 does with the entry: nothing (it is
\* left in the pending list).
HandlerAck(w) == UNCHANGED groups

AfterFailureExit(w) ==
    /\ Goto(w, "fatal")
    /\ wmsg' = [wmsg EXCEPT ![w] = 0]
    /\ wpage' = [wpage EXCEPT ![w] = NoPage]
    /\ werr' = [werr EXCEPT ![w] = ""]

\* worker.py 218-222: the exception that left process_document (or XACK) is
\* logged; continue takes the loop back to XREADGROUP.
AfterFailure(w) ==
    /\ Goto(w, "read")
    /\ wmsg' = [wmsg EXCEPT ![w] = 0]
    /\ wpage' = [wpage EXCEPT ![w] = NoPage]
    /\ werr' = [werr EXCEPT ![w] = ""]

\* worker.py 151-163: the outer handler writes the error and re-raises (when
\* its write raises, that exception leaves instead); main (218-222) logs it
\* and continues.
WorkerFailOuter(w, redis) ==
    /\ wpc[w] = "fail_outer"
    /\ Fault(redis)
    /\ TryWriteStatus(Doc(w), ErrorFields(werr[w]), redis)
    /\ TermAfter(w, "error", redis)
    /\ AfterFailure(w)
    /\ HandlerAck(w)
    /\ raised' = raised \cup {wmsg[w]}
    /\ failed' = failed \cup {wmsg[w]}
    /\ UNCHANGED <<uploadVars, streamExists, stream, deliveries, crashes>>

\* worker.py 214-216
WorkerAck(w) ==
    /\ wpc[w] = "ack"
    /\ UNCHANGED faults
    /\ XAck(wmsg[w])
    /\ Goto(w, "read")
    /\ wmsg' = [wmsg EXCEPT ![w] = 0]
    /\ wpage' = [wpage EXCEPT ![w] = NoPage]
    /\ UNCHANGED <<uploadVars, streamExists, stream, deliveries, status, hiStep,
                   werr, wterm, crashes, raised, failed>>

\* What the handler at worker.py 218-222 writes when XACK raised: nothing.
AckFailureWrite(w) == UNCHANGED <<status, hiStep, wterm>>

\* worker.py 215 raising: handled at 218-222, the loop continues.  The entry
\* has left the pending list when the server had executed the XACK.
WorkerAckFail(w, redis) ==
    /\ wpc[w] = "ack"
    /\ Fault(redis)
    /\ IF Applied(redis) THEN XAck(wmsg[w]) ELSE UNCHANGED groups
    /\ AckFailureWrite(w)
    /\ AfterFailure(w)
    /\ raised' = raised \cup {wmsg[w]}
    /\ UNCHANGED <<uploadVars, streamExists, stream, deliveries, crashes, failed>>

\* The worker process dies (kill, OOM, host failure) anywhere after start.
WorkerCrash(w) ==
    /\ wpc[w] \notin {"off", "down"}
    /\ UNCHANGED faults
    /\ crashes < MaxCrashes
    /\ crashes' = crashes + 1
    /\ Goto(w, "down")
    /\ wmsg' = [wmsg EXCEPT ![w] = 0]
    /\ wpage' = [wpage EXCEPT ![w] = NoPage]
    /\ werr' = [werr EXCEPT ![w] = ""]
    /\ wterm' = [wterm EXCEPT ![w] = "none"]
    /\ UNCHANGED <<uploadVars, queueVars, status, hiStep, raised, failed>>

(***************************************************************************)
(* The system.                                                             *)
(***************************************************************************)
Upload(r) ==
    \/ \E f \in Filenames, c \in Contents, p \in Parsers :
          \/ \E has_str \in BOOLEAN : UploadReject(r, f, c, p, has_str)
          \/ UploadXadd(r, f, c, p)
          \/ \E redis \in RedisFailures : UploadXaddFail(r, f, c, p, redis)
    \/ UploadHset(r)
    \/ \E redis \in RedisFailures : UploadHsetFail(r, redis)
    \/ UploadAnswer(r)
    \/ UploadRaise(r)

Process(w) ==
    \E redis \in RedisOutcomes :
        \/ WorkerInit(w, redis)
        \/ WorkerDecode(w, redis)
        \/ \E o \in BackendOutcomes : WorkerPypdf(w, redis, o)
        \/ WorkerPypdfDone(w, redis)
        \/ \E o \in BackendOutcomes, n \in 0..MaxPages :
              WorkerGeminiConvert(w, redis, o, n)
        \/ \E o \in BackendOutcomes : WorkerGeminiPage(w, redis, o)
        \/ \E o \in BackendOutcomes : WorkerGeminiSummary(w, redis, o)
        \/ WorkerGeminiDone(w, redis)
        \/ WorkerInnerHandler(w, redis)
        \/ WorkerFailOuter(w, redis)

Worker(w) ==
    \/ WorkerStart(w)
    \/ \E redis \in RedisFailures : WorkerStartFail(w, redis)
    \/ WorkerRead(w)
    \/ WorkerReadEmpty(w)
    \/ \E redis \in RedisFailures : WorkerReadError(w, redis)
    \/ Process(w)
    \/ WorkerAck(w)
    \/ \E redis \in RedisFailures : WorkerAckFail(w, redis)

Next ==
    \/ \E r \in Requests : Upload(r)
    \/ \E w \in Workers : Worker(w)
    \/ \E w \in Workers : WorkerCrash(w)

Spec == Init /\ [][Next]_vars

\* Several worker processes started from the same worker.py, all with the
\* consumer name REDIS_CONSUMER.
MultiInit ==
    /\ InitShared
    /\ wpc = [w \in Workers |-> "down"]

\* The system while no worker process is killed: uploads and worker steps.
RunNext ==
    \/ \E r \in Requests : Upload(r)
    \/ \E w \in Workers : Worker(w)

MultiSpec == MultiInit /\ [][RunNext]_vars

\* A started request handler runs to its answer, and a running worker process
\* keeps taking steps; a crashed worker is restarted.
Fairness ==
    /\ \A r \in Requests :
          WF_vars(UploadHset(r) \/ \E redis \in RedisFailures : UploadHsetFail(r, redis))
    /\ \A r \in Requests : WF_vars(UploadAnswer(r) \/ UploadRaise(r))
    /\ \A w \in Workers : WF_vars(WorkerStart(w))
    /\ \A w \in Workers : WF_vars(WorkerRead(w))
    /\ \A w \in Workers : WF_vars(Process(w))
    /\ \A w \in Workers :
          WF_vars(WorkerAck(w) \/ \E redis \in RedisFailures : WorkerAckFail(w, redis))

FairSpec == Spec /\ Fairness

\* One worker that keeps running, with the same fairness.
RunSpec == Init /\ [][RunNext]_vars /\ Fairness

(***************************************************************************)
(* Vocabulary of the properties.                                           *)
(***************************************************************************)
State(d) == status[d]["status"]
Step(d) == StepNum(status[d]["current_step_number"])
Has(d, f) == status[d][f] # Absent
InStream(id) == id <= Len(stream)
Pending(id) == GroupExists /\ \E p \in groups[REDIS_GROUP].pel : p.id = id
Held(id) == \E w \in Workers : wmsg[w] = id
Supported(id) == stream[id].parser \in {"pypdf", "gemini"}
\* The entry was appended by an upload that answered 200.
Submitted(id) == InStream(id) /\ response[stream[id].doc_id].code = 200

\* The documented state machine of a record, with the producer's first write.
AllowedTransitions ==
    {<<Absent, "queued">>, <<"queued", "processing">>,
     <<"processing", "completed">>, <<"processing", "error">>}

\* The record of the entry's document is complete and the entry acknowledged.
EntryDone(id) ==
    /\ InStream(id)
    /\ State(stream[id].doc_id) = "completed"
    /\ Has(stream[id].doc_id, "content")
    /\ Has(stream[id].doc_id, "summary")
    /\ status[stream[id].doc_id]["current_step_number"]
          = status[stream[id].doc_id]["total_steps"]
    /\ deliveries[id] >= 1
    /\ ~Pending(id)

(***************************************************************************)
(* C1.  Whenever the stream holds a job entry for a document id, a status  *)
(* record for that id exists (the record is written before the entry is    *)
(* appended).                                                              *)
(***************************************************************************)
C1_RecordBeforeEntry ==
    \A id \in EntryIds :
        InStream(id) => HGetAll(status[stream[id].doc_id]) # {}

(***************************************************************************)
(* C2.  After upload_file has answered with a doc_id, get_status for that  *)
(* doc_id never answers not-found, and in the state the answer is given in *)
(* (before any further worker step) it reports "queued".                   *)
(***************************************************************************)
C2_QueuedAfterSubmit ==
    /\ [](\A r \in Requests :
            response[r].code = 200 => get_status(response[r].doc_id).code = 200)
    /\ [][\A r \in Requests :
            (response[r].code = 0 /\ response'[r].code = 200)
                => /\ get_status(response[r].doc_id)'.code = 200
                   /\ get_status(response[r].doc_id)'.status = "queued"]_vars

(***************************************************************************)
(* C3.  Every job entry appended by a successful upload is eventually      *)
(* delivered to the worker at least once, provided the worker does not     *)
(* crash, whether the entry was appended before or after the worker        *)
(* created the consumer group.                                             *)
(***************************************************************************)
C3_EveryEntryDelivered ==
    \A id \in EntryIds : Submitted(id) ~> (deliveries[id] >= 1 \/ crashes > 0)

(***************************************************************************)
(* C4.  An entry that was delivered but not acknowledged, and that no      *)
(* worker is processing any more (the worker crashed, or handling it       *)
(* raised), is delivered again.                                            *)
(***************************************************************************)
C4_PendingRedelivered ==
    \A id \in EntryIds : (Pending(id) /\ ~Held(id)) ~> Held(id)

(***************************************************************************)
(* C5.  The state of a status record only changes by the producer's        *)
(* initial write (absent -> queued) and along queued -> processing,        *)
(* processing -> completed, processing -> error.                           *)
(***************************************************************************)
C5_StateMachine ==
    [][\A d \in DocIds :
          State(d)' # State(d) => <<State(d), State(d)'>> \in AllowedTransitions]_vars

(***************************************************************************)
(* C6.  A successfully submitted document with a supported parser, whose   *)
(* handling does not raise and whose worker does not crash, eventually has *)
(* a completed record with content and summary, step number = total steps  *)
(* and its entry acknowledged; a completed record stays completed.         *)
(***************************************************************************)
C6_CompletesAndStays ==
    /\ \A id \in EntryIds :
          (Submitted(id) /\ Supported(id))
              ~> (EntryDone(id) \/ id \in raised \/ crashes > 0)
    /\ [][\A d \in DocIds : State(d) = "completed" => State(d)' = "completed"]_vars

(***************************************************************************)
(* C7.  Within one delivery, once the worker has written "completed" or    *)
(* "error", no later write of that delivery writes the other terminal      *)
(* state, also when XACK fails after a completed write.                    *)
(***************************************************************************)
C7_TerminalExclusive ==
    [][\A w \in Workers :
          (wterm[w] # "none" /\ wterm'[w] # "none") => wterm'[w] = wterm[w]]_vars

(***************************************************************************)
(* C8.  While a record is in state "processing", its current_step_number   *)
(* is never below a step number observed earlier in state "processing".    *)
(***************************************************************************)
C8_MonotonicProgress ==
    \A d \in DocIds : State(d) = "processing" => Step(d) >= hiStep[d]

\* The second page of two has been written (3 after 3), after the producer's
\* own write.
C8_Witness ==
    \E w \in Workers :
        /\ wpc[w] = "g_summary"
        /\ State(Doc(w)) = "processing"
        /\ Step(Doc(w)) = 3
        /\ hiStep[Doc(w)] = 3
        /\ status[Doc(w)]["progress"] = PageProgress(2, 2)
        /\ upc[Doc(w)] = "done"

(***************************************************************************)
(* C9.  A record has content if and only if it has summary.                *)
(***************************************************************************)
C9_ContentIffSummary ==
    \A d \in DocIds : Has(d, "content") <=> Has(d, "summary")

C9_Witness ==
    \E d \in DocIds :
        State(d) = "completed" /\ Has(d, "content") /\ Has(d, "summary")

(***************************************************************************)
(* C10.  A record has content and summary only in state "completed" and    *)
(* the error field only in state "error".                                  *)
(***************************************************************************)
C10_FieldsMatchState ==
    \A d \in DocIds :
        /\ (Has(d, "content") \/ Has(d, "summary")) => State(d) = "completed"
        /\ Has(d, "error") => State(d) = "error"

(***************************************************************************)
(* Vocabulary of the later properties.                                     *)
(***************************************************************************)
\* The submit is one the contract rejects: empty payload, no PDF signature,
\* or a filename that is not a .pdf.
InvalidInput(f) ==
    \/ f.content = << >>
    \/ ~StartsWith(f.content, PdfSig)
    \/ ~EndsWith(f.filename, <<".pdf">>)

\* The step in which upload_file receives request r.
Received(r) == upc[r] = "new" /\ upc'[r] # "new"

\* The server gave the entry to the group's consumer in an XREADGROUP whose
\* reply reached no worker.
ClaimLost(id) == Pending(id) /\ deliveries[id] = 0

\* The step in which process_document's outermost handler ends the processing
\* of worker w's entry with a failure.
FailureEnds(w) == wpc[w] = "fail_outer" /\ wpc'[w] = "read"

(***************************************************************************)
(* C11.  Every processing failure in the worker, one of whose handlers     *)
(* could write to the status store, ends with the document's record in     *)
(* state "error", its error field holding the failure message (for an      *)
(* unsupported parser, a message naming it), and a record in state "error" *)
(* stays in state "error".                                                 *)
(***************************************************************************)
C11_FailureEndsInError ==
    /\ [][\A w \in Workers :
            (FailureEnds(w) /\ wterm'[w] = "error") =>
                /\ status'[Doc(w)]["status"] = "error"
                /\ status'[Doc(w)]["error"] = werr[w]
                /\ werr[w] # ""
                /\ (/\ ~Supported(wmsg[w])
                    /\ werr[w] \notin {RedisErrorMsg, DecodeErrorFields["error"]})
                      => status'[Doc(w)]["error"]
                            = UnsupportedParserMsg(Entry(w).parser)]_vars
    /\ [][\A d \in DocIds : State(d) = "error" => State(d)' = "error"]_vars

(***************************************************************************)
(* C12.  Once the worker is done with an entry whose processing ended in   *)
(* an error, the entry is acknowledged: no entry whose record is in state  *)
(* "error" remains in the group's pending list (worker crashes aside).     *)
(***************************************************************************)
C12_ErrorEntriesAcked ==
    \A id \in EntryIds :
        (/\ InStream(id)
         /\ State(stream[id].doc_id) = "error"
         /\ ~Held(id)
         /\ crashes = 0) => ~Pending(id)

(***************************************************************************)
(* C13.  A submit whose payload is empty or lacks the PDF signature, or    *)
(* whose filename is not a .pdf, appends no entry to the stream and        *)
(* creates or modifies no status record.                                   *)
(***************************************************************************)
C13_InvalidSubmitNoEffect ==
    [][\A r \in Requests :
          (Received(r) /\ InvalidInput(file'[r])) =>
              /\ stream' = stream
              /\ streamExists' = streamExists
              /\ groups' = groups
              /\ status' = status]_vars

\* An empty payload named .pdf was rejected while another document's entry
\* and record exist.
C13_Witness ==
    \E r \in Requests :
        /\ upc[r] = "done"
        /\ file[r] = [filename |-> <<"doc", ".pdf">>, content |-> << >>]
        /\ response[r].code # 0
        /\ \A id \in EntryIds : InStream(id) => stream[id].doc_id # r
        /\ status[r] = EmptyHash
        /\ stream # << >>
        /\ \E d \in DocIds : State(d) = "completed"

(***************************************************************************)
(* C14.  A submit rejected for invalid input is answered with a client     *)
(* error (4xx), not with the server error (5xx) that answers an            *)
(* infrastructure failure.                                                 *)
(***************************************************************************)
C14_ClientErrorForInvalidInput ==
    \A r \in Requests :
        (upc[r] = "done" /\ InvalidInput(file[r]))
            => response[r].code \in 400..499

(***************************************************************************)
(* C15.  Starting a worker always takes it to its claim loop, also when    *)
(* the group exists, in which case the group (its cursor and pending       *)
(* list) is left as it is; after a start the stream and the group exist;   *)
(* and the stream never has a group other than pdf_workers.                *)
(***************************************************************************)
C15_GroupCreationIdempotent ==
    /\ [][\A w \in Workers :
            (wpc[w] = "down" /\ wpc'[w] # "down") =>
                /\ wpc'[w] = "read"
                /\ streamExists'
                /\ DOMAIN groups' = {REDIS_GROUP}
                /\ GroupExists => groups' = groups]_vars
    /\ [](DOMAIN groups \subseteq {REDIS_GROUP})
    /\ []((\E w \in Workers : wpc[w] \notin {"off", "down"}) => GroupExists)

\* The worker was restarted after a crash and is in its loop again, the
\* entry it had claimed before the crash still pending in the same group.
C15_Witness ==
    \E w \in Workers, id \in EntryIds :
        /\ crashes >= 1
        /\ wpc[w] = "read"
        /\ Pending(id)
        /\ groups[REDIS_GROUP].last >= id
        /\ streamExists

C17_OneWorkerPerEntry ==
    \A w1, w2 \in Workers :
        (w1 # w2 /\ wmsg[w1] # 0 /\ wmsg[w2] # 0)
            => (wmsg[w1] # wmsg[w2] /\ Doc(w1) # Doc(w2))

\* Two workers are in the middle of two different documents.
C17_Witness ==
    \E w1, w2 \in Workers :
        /\ w1 # w2
        /\ wpc[w1] \in {"p_done", "g_done"}
        /\ wpc[w2] \in {"p_process", "g_page"}
        /\ wmsg[w1] # wmsg[w2]
        /\ \A p \in groups[REDIS_GROUP].pel : p.consumer = REDIS_CONSUMER
        /\ Cardinality(groups[REDIS_GROUP].pel) = 2

(***************************************************************************)
(* C18.  Every status record that exists has total_steps = 5 and           *)
(* 0 <= current_step_number <= total_steps, and in state "completed"       *)
(* current_step_number = total_steps.                                      *)
(***************************************************************************)
C18_StepWithinTotal ==
    \A d \in DocIds :
        HGetAll(status[d]) # {} =>
            /\ status[d]["total_steps"] = StepStr(TotalSteps)
            /\ Step(d) >= 0
            /\ Step(d) <= StepNum(status[d]["total_steps"])
            /\ State(d) = "completed"
                  => Step(d) = StepNum(status[d]["total_steps"])

C20_FailedSubmitNoEntry ==
    \A r \in Requests :
        response[r].code >= 400
            => \A id \in EntryIds : InStream(id) => stream[id].doc_id # r
====
